---- MODULE Spec2Model ----
(***************************************************************************)
(* The Algol68 line colorizer of QEmacs (lang/algol68.c).                  *)
(*                                                                         *)
(* A line is a sequence of Unicode code points (naturals); C offsets are   *)
(* 0-based, so str[k] of the source is At(str, k) here.  The colorizer is  *)
(* called once per line with the state left by the previous line in        *)
(* cp->colorize_state and leaves the state for the next line there.        *)
(***************************************************************************)
EXTENDS Integers, Sequences, FiniteSets, TLC

(* ---------------- code points named by the source's literals ----------- *)
CH ==
    [ nul     |-> 0,    \* the terminator the host keeps at str[n]
      tab     |-> 9,
      space   |-> 32,
      quote   |-> 34,   \* '"'
      sharp   |-> 35,   \* '#'
      dollar  |-> 36,   \* '$'
      lparen  |-> 40,   \* '('
      star    |-> 42,   \* '*'
      plus    |-> 43,   \* '+'
      minus   |-> 45,   \* '-'
      dot     |-> 46,   \* '.'
      bslash  |-> 92,   \* '\\'
      under   |-> 95,   \* '_'
      e       |-> 101,  \* 'e'
      lbrace  |-> 123,  \* '{'
      rbrace  |-> 125,  \* '}'
      cent    |-> 162,  \* 0xA2
      pound   |-> 163 ] \* 0xA3

(* ---------------- the keyword and type tables --------------------------- *)
algol68_keywords ==
    {
      <<112,114,105,111,114,105,116,121>>,  \* priority
      <<116,104,101,102>>,  \* thef
      <<98,116,98>>,  \* btb
      <<99,116,98>>,  \* ctb
      <<99,111,110,106>>,  \* conj
      <<113,117,111,116,101>>,  \* quote
      <<99,116>>,  \* ct
      <<99,116,97,98>>,  \* ctab
      <<101,105,116,104,101,114>>,  \* either
      <<115,105,103,110>>,  \* sign
      <<116,114,117,101>>,  \* true
      <<102,97,108,115,101>>,  \* false
      <<105,102>>,  \* if
      <<116,104,101,110>>,  \* then
      <<101,108,115,101>>,  \* else
      <<101,108,105,102>>,  \* elif
      <<102,105>>,  \* fi
      <<99,97,115,101>>,  \* case
      <<105,110>>,  \* in
      <<111,117,116>>,  \* out
      <<111,117,115,101>>,  \* ouse
      <<101,115,97,99>>,  \* esac
      <<110,105,108>>,  \* nil
      <<115,107,105,112>>,  \* skip
      <<101,109,112,116,121>>,  \* empty
      <<109,111,100,101>>,  \* mode
      <<111,112>>,  \* op
      <<112,114,105,111>>,  \* prio
      <<112,114,111,99>>,  \* proc
      <<103,111,116,111>>,  \* goto
      <<110,111,116>>,  \* not
      <<117,112>>,  \* up
      <<100,111,119,110>>,  \* down
      <<108,119,98>>,  \* lwb
      <<117,112,98>>,  \* upb
      <<97,98,115>>,  \* abs
      <<98,105,110>>,  \* bin
      <<101,110,116,105,101,114>>,  \* entier
      <<108,101,110,103>>,  \* leng
      <<108,101,118,101,108>>,  \* level
      <<111,100,100>>,  \* odd
      <<114,101,112,114>>,  \* repr
      <<114,111,117,110,100>>,  \* round
      <<115,104,111,114,116,101,110>>,  \* shorten
      <<115,104,108>>,  \* shl
      <<115,104,114>>,  \* shr
      <<111,118,101,114>>,  \* over
      <<109,111,100>>,  \* mod
      <<101,108,101,109>>,  \* elem
      <<108,116>>,  \* lt
      <<108,101>>,  \* le
      <<103,101>>,  \* ge
      <<103,116>>,  \* gt
      <<101,113>>,  \* eq
      <<110,101>>,  \* ne
      <<97,110,100>>,  \* and
      <<111,114>>,  \* or
      <<97,110,100,102>>,  \* andf
      <<111,114,102>>,  \* orf
      <<97,110,100,116,104>>,  \* andth
      <<111,114,101,108>>,  \* orel
      <<97,110,100,116,104,101,110>>,  \* andthen
      <<111,114,101,108,115,101>>,  \* orelse
      <<109,105,110,117,115,97,98>>,  \* minusab
      <<112,108,117,115,97,98>>,  \* plusab
      <<116,105,109,101,115,97,98>>,  \* timesab
      <<100,105,118,97,98>>,  \* divab
      <<111,118,101,114,97,98>>,  \* overab
      <<109,111,100,97,98>>,  \* modab
      <<112,108,117,115,116,111>>,  \* plusto
      <<105,115>>,  \* is
      <<105,115,110,116>>,  \* isnt
      <<111,102>>,  \* of
      <<97,116>>,  \* at
      <<102,111,114>>,  \* for
      <<102,114,111,109>>,  \* from
      <<98,121>>,  \* by
      <<117,112,116,111>>,  \* upto
      <<100,111,119,110,116,111>>,  \* downto
      <<116,111>>,  \* to
      <<119,104,105,108,101>>,  \* while
      <<100,111>>,  \* do
      <<111,100>>,  \* od
      <<112,97,114>>,  \* par
      <<98,101,103,105,110>>,  \* begin
      <<101,120,105,116>>,  \* exit
      <<101,110,100>>,  \* end
      <<115,116,114,117,99,116>>,  \* struct
      <<117,110,105,111,110>>,  \* union
      <<114,101,102>>,  \* ref
      <<118,101,99,116,111,114>>,  \* vector
      <<116,111,100,111>>,  \* todo
      <<102,105,120,109,101>>,  \* fixme
      <<120,120,120>>,  \* xxx
      <<100,101,98,117,103>>,  \* debug
      <<110,111,116,101>>,  \* note
      <<100,101,99,115>>,  \* decs
      <<99,111,110,116,101,120,116>>,  \* context
      <<99,111,110,102,105,103,105,110,102,111>>,  \* configinfo
      <<97,54,56,99,111,110,102,105,103>>,  \* a68config
      <<107,101,101,112>>,  \* keep
      <<102,105,110,105,115,104>>,  \* finish
      <<117,115,101>>,  \* use
      <<115,121,115,112,114,111,99,115>>,  \* sysprocs
      <<105,111,115,116,97,116,101>>,  \* iostate
      <<102,111,114,97,108,108>>,  \* forall
      <<117,115,105,110,103>>,  \* using
      <<101,110,118,105,114,111,110>>,  \* environ
      <<102,111,114,101,97,99,104>>,  \* foreach
      <<97,115,115,101,114,116>>,  \* assert
      <<109,111,100,117,108,101>>,  \* module
      <<100,101,102>>,  \* def
      <<102,101,100>>,  \* fed
      <<112,117,98>>,  \* pub
      <<112,111,115,116,108,117,100,101>>,  \* postlude
      <<97,99,99,101,115,115>>   \* access
    }

algol68_types ==
    {
      <<102,108,101,120>>,  \* flex
      <<104,101,97,112>>,  \* heap
      <<108,111,99>>,  \* loc
      <<108,111,110,103>>,  \* long
      <<115,104,111,114,116>>,  \* short
      <<98,105,116,115>>,  \* bits
      <<98,111,111,108>>,  \* bool
      <<98,121,116,101,115>>,  \* bytes
      <<99,104,97,114>>,  \* char
      <<99,111,109,112,108>>,  \* compl
      <<105,110,116>>,  \* int
      <<114,101,97,108>>,  \* real
      <<99,111,109,112,108,101,120>>,  \* complex
      <<115,101,109,97>>,  \* sema
      <<115,116,114,105,110,103>>,  \* string
      <<118,111,105,100>>,  \* void
      <<99,104,97,110,110,101,108>>,  \* channel
      <<102,105,108,101>>,  \* file
      <<102,111,114,109,97,116>>   \* format
    }

(* ---------------- colorize_state bits ----------------------------------- *)
IN_ALGOL68_COMMENT_COMMENT == 1
IN_ALGOL68_COMMENT_CO == 2
IN_ALGOL68_COMMENT_SHARP == 4
IN_ALGOL68_COMMENT_CENT == 8
IN_ALGOL68_COMMENT_POUND == 8
IN_ALGOL68_COMMENT_BRACES == 16
IN_ALGOL68_COMMENT_NOTE == 32
IN_ALGOL68_COMMENT_PR == 64
IN_ALGOL68_COMMENT == 127
IN_ALGOL68_STRING == 128
IN_ALGOL68_CONTINUATION == 256
IN_ALGOL68_COMMENT_LEVEL == 512

(* ---------------- styles ------------------------------------------------ *)
ALGOL68_STYLE_TEXT == "text"
ALGOL68_STYLE_KEYWORD == "keyword"
ALGOL68_STYLE_TYPE == "type"
ALGOL68_STYLE_PREPROCESS == "preprocess"
ALGOL68_STYLE_COMMENT == "comment"
ALGOL68_STYLE_STRING == "string"
ALGOL68_STYLE_IDENTIFIER == "identifier"
ALGOL68_STYLE_NUMBER == "number"
ALGOL68_STYLE_FUNCTION == "function"

HAS_UPPER == 1

\* countof(kbuf)
KBUF_SIZE == 16

(* ---------------- int bit operations (on naturals) ---------------------- *)
RECURSIVE BitAnd(_, _)
BitAnd(a, b) ==
    IF a = 0 \/ b = 0 THEN 0
    ELSE (IF a % 2 = 1 /\ b % 2 = 1 THEN 1 ELSE 0) + 2 * BitAnd(a \div 2, b \div 2)

RECURSIVE BitOr(_, _)
BitOr(a, b) ==
    IF a = 0 THEN b
    ELSE IF b = 0 THEN a
    ELSE (IF a % 2 = 1 \/ b % 2 = 1 THEN 1 ELSE 0) + 2 * BitOr(a \div 2, b \div 2)

\* x & ~mask
BitClear(x, mask) == x - BitAnd(x, mask)

(* ---------------- character classes of the host (qe.h) ------------------ *)
qe_isblank(c) == c = CH.space \/ c = CH.tab
qe_isdigit(c) == c \in 48..57
qe_isupper(c) == c \in 65..90
qe_isalpha(c) == c \in 65..90 \/ c \in 97..122
qe_isalnum(c) == qe_isdigit(c) \/ qe_isalpha(c)
qe_isalnum_(c) == qe_isalnum(c) \/ c = CH.under
qe_tolower(c) == IF qe_isupper(c) THEN c + 32 ELSE c
strequal(a, b) == a = b
strfind(keytable, word) == word \in keytable

\* str[k] for 0 <= k <= n: the host ends the line buffer with a NUL at str[n]
At(str, k) == IF k < Len(str) THEN str[k + 1] ELSE CH.nul

\* SET_STYLE(sbuf, from, to, style): the C range [from, to)
SET_STYLE(sbuf, from, to, style) ==
    [k \in 1..Len(sbuf) |-> IF from < k /\ k <= to THEN style ELSE sbuf[k]]

(* ---------------- algol68_get_tag --------------------------------------- *)
\* One turn of the for loop: the code point c is stored (folded) while the
\* destination has room, and the scan goes on to the end of the word.
get_tag_store(dest, size, c) ==
    IF Len(dest) + 1 < size THEN Append(dest, qe_tolower(c)) ELSE dest

get_tag_flags(dest, size, c, flags) ==
    IF Len(dest) + 1 < size /\ qe_isupper(c) THEN BitOr(flags, HAS_UPPER) ELSE flags

RECURSIVE get_tag_loop(_, _, _, _, _, _)
get_tag_loop(dest, size, c, str, j, flags) ==
    IF j >= Len(str) \/ ~qe_isalnum_(At(str, j))
    THEN [ j     |-> j,
           dest  |-> get_tag_store(dest, size, c),
           flags |-> get_tag_flags(dest, size, c, flags) ]
    ELSE get_tag_loop(get_tag_store(dest, size, c), size, At(str, j), str, j + 1,
                      get_tag_flags(dest, size, c, flags))

\* variant: the return value counts the seed as well
get_tag_result_whole(size, i, r) ==
    [ skip  |-> r.j - i + 1,
      dest  |-> r.dest,
      term  |-> Len(r.dest) < size,
      flags |-> r.flags ]

\* variant: the return value is the number of characters stored
get_tag_result_stored(size, i, r) ==
    [ skip  |-> IF Len(r.dest) > 0 THEN Len(r.dest) - 1 ELSE 0,
      dest  |-> r.dest,
      term  |-> Len(r.dest) < size,
      flags |-> r.flags ]

\* dest: the characters stored; term: whether dest[pos] = '\0' was written;
\* flags: the value for *flagsp; skip: the return value j - i.
get_tag_result(size, i, r) ==
    [ skip  |-> r.j - i,
      dest  |-> r.dest,
      term  |-> Len(r.dest) < size,
      flags |-> r.flags ]

algol68_get_tag(size, c, str, i) ==
    get_tag_result(size, i, get_tag_loop(<<>>, size, c, str, i, 0))

(* ---------------- algol68_colorize_line --------------------------------- *)
(* The scanner's locals are the record s: i, colstate, level, sbuf, flags.  *)
(* Each in_* operator is the code from its label to the end of that turn of *)
(* the main loop, the SET_STYLE of lines 387-390 included.  The field       *)
(* opened is a history value, not a local of the code: the delimiter of the *)
(* last single-character comment the switch opened in this call (0: none).  *)

W_note == <<110,111,116,101>>
W_eton == <<101,116,111,110>>
W_comment == <<99,111,109,109,101,110,116>>
W_co == <<99,111>>
W_pr == <<112,114>>

\* lines 387-390; writes is a history value, the ranges [start, i) that
\* SET_STYLE was called with
put_style(s, start, style) ==
    [s EXCEPT !.sbuf = SET_STYLE(s.sbuf, start, s.i, style),
              !.writes = @ \cup {<<start, s.i>>}]

\* colstate |= level * IN_ALGOL68_COMMENT_LEVEL
set_level(s) ==
    [s EXCEPT !.colstate = BitOr(s.colstate, s.level * IN_ALGOL68_COMMENT_LEVEL)]

RECURSIVE comment_char_loop(_, _, _)
comment_char_loop(str, s, c) ==
    IF s.i >= Len(str) THEN s
    ELSE IF c = At(str, s.i)
    THEN [s EXCEPT !.i = s.i + 1,
                   !.colstate = BitClear(s.colstate, IN_ALGOL68_COMMENT)]
    ELSE comment_char_loop(str, [s EXCEPT !.i = s.i + 1], c)

\* variant: the closing delimiter leaves the comment flag set
in_comment_char_unclosed(str, s, start, c) ==
    put_style([comment_char_loop(str, s, c) EXCEPT !.colstate = s.colstate],
              start, ALGOL68_STYLE_COMMENT)

in_comment_char(str, s, start, c) ==
    put_style(comment_char_loop(str, s, c), start, ALGOL68_STYLE_COMMENT)

RECURSIVE comment_brace_loop(_, _)
comment_brace_loop(str, s) ==
    IF s.i >= Len(str) THEN s
    ELSE IF At(str, s.i) = CH.lbrace
    THEN comment_brace_loop(str, [s EXCEPT !.i = s.i + 1, !.level = s.level + 1])
    ELSE IF At(str, s.i) = CH.rbrace /\ s.level - 1 = 0
    THEN [s EXCEPT !.i = s.i + 1, !.level = s.level - 1,
                   !.colstate = BitClear(s.colstate, IN_ALGOL68_COMMENT)]
    ELSE IF At(str, s.i) = CH.rbrace
    THEN comment_brace_loop(str, [s EXCEPT !.i = s.i + 1, !.level = s.level - 1])
    ELSE comment_brace_loop(str, [s EXCEPT !.i = s.i + 1])

\* variant: the first '}' closes the comment, whatever the level
in_comment_brace_flat(str, s, start) ==
    put_style(set_level(comment_char_loop(str, s, CH.rbrace)),
              start, ALGOL68_STYLE_COMMENT)

in_comment_brace(str, s, start) ==
    put_style(set_level(comment_brace_loop(str, s)), start, ALGOL68_STYLE_COMMENT)

RECURSIVE string_loop(_, _)
string_loop(str, s) ==
    IF s.i >= Len(str) THEN s
    ELSE IF At(str, s.i) = CH.bslash /\ s.i + 1 = Len(str)
    THEN [s EXCEPT !.i = s.i + 1,
                   !.colstate = BitOr(s.colstate, IN_ALGOL68_STRING)]
    ELSE IF At(str, s.i) = CH.quote
    THEN [s EXCEPT !.i = s.i + 1,
                   !.colstate = BitClear(s.colstate, IN_ALGOL68_STRING)]
    ELSE string_loop(str, [s EXCEPT !.i = s.i + 1])

\* variant: the string ends with its line, the flag is never carried
in_string_unbroken(str, s, start) ==
    put_style([string_loop(str, s) EXCEPT
                   !.colstate = BitClear(@, IN_ALGOL68_STRING)],
              start, ALGOL68_STYLE_STRING)

\* variant: every string leaves the flag set, closed or not
in_string_flagged(str, s, start) ==
    put_style([string_loop(str, s) EXCEPT
                   !.colstate = BitOr(@, IN_ALGOL68_STRING)],
              start, ALGOL68_STYLE_STRING)

in_string(str, s, start) ==
    put_style(string_loop(str, s), start, ALGOL68_STYLE_STRING)

\* variant: the broken tag moves the cursor one position too far
in_broken_tag_overrun(str, s, start) ==
    put_style([s EXCEPT !.colstate = BitOr(s.colstate, IN_ALGOL68_CONTINUATION),
                        !.i = s.i + 1],
              start, ALGOL68_STYLE_IDENTIFIER)

in_broken_tag(str, s, start) ==
    put_style([s EXCEPT !.colstate = BitOr(s.colstate, IN_ALGOL68_CONTINUATION)],
              start,
              IF BitAnd(s.flags, HAS_UPPER) # 0 THEN ALGOL68_STYLE_TYPE
              ELSE ALGOL68_STYLE_IDENTIFIER)

\* The body loop of NOTE ... ETON.  In comment_note_tag s.i is still j, the
\* offset of the tag's first code point; closed and j of the result tell
\* whether and where the closing word was met.
RECURSIVE comment_note_loop(_, _)
RECURSIVE comment_note_tag(_, _, _)
comment_note_tag(str, s, tag) ==
    IF strequal(tag.dest, W_note)
    THEN comment_note_loop(str, [s EXCEPT !.i = s.i + 1 + tag.skip,
                                          !.level = s.level + 1])
    ELSE IF strequal(tag.dest, W_eton) /\ s.level - 1 = 0
    THEN [ s      |-> [s EXCEPT !.i = s.i + 1 + tag.skip,
                                !.level = s.level - 1,
                                !.colstate = BitClear(s.colstate, IN_ALGOL68_COMMENT)],
           closed |-> TRUE,
           j      |-> s.i ]
    ELSE IF strequal(tag.dest, W_eton)
    THEN comment_note_loop(str, [s EXCEPT !.i = s.i + 1 + tag.skip,
                                          !.level = s.level - 1])
    ELSE comment_note_loop(str, [s EXCEPT !.i = s.i + 1 + tag.skip])

comment_note_loop(str, s) ==
    IF s.i >= Len(str) THEN [s |-> s, closed |-> FALSE, j |-> s.i]
    ELSE IF qe_isalpha(At(str, s.i))
    THEN comment_note_tag(str, s,
                          algol68_get_tag(KBUF_SIZE, At(str, s.i), str, s.i + 1))
    ELSE comment_note_loop(str, [s EXCEPT !.i = s.i + 1])

\* lines 292-296 and 387-390: the styles of a keyword-delimited body and of
\* the word that closed it
comment_word_end(start, r, style) ==
    IF r.closed
    THEN put_style([r.s EXCEPT !.sbuf = SET_STYLE(r.s.sbuf, start, r.j, style),
                               !.writes = @ \cup {<<start, r.j>>}],
                   r.j, ALGOL68_STYLE_KEYWORD)
    ELSE put_style(r.s, start, style)

\* variant: the level is not stored into the state
comment_note_level_lost(r) == r

comment_note_level(r) == [r EXCEPT !.s = set_level(r.s)]

in_comment_note(str, s) ==
    comment_word_end(s.i, comment_note_level(comment_note_loop(str, s)),
                     ALGOL68_STYLE_COMMENT)

\* The body loop shared in shape by COMMENT, CO and PR: it ends at the first
\* tag equal to word.
RECURSIVE comment_word_loop(_, _, _)
RECURSIVE comment_word_tag(_, _, _, _)
comment_word_tag(str, s, word, tag) ==
    IF strequal(tag.dest, word)
    THEN [ s      |-> [s EXCEPT !.i = s.i + 1 + tag.skip,
                                !.colstate = BitClear(s.colstate, IN_ALGOL68_COMMENT)],
           closed |-> TRUE,
           j      |-> s.i ]
    ELSE comment_word_loop(str, [s EXCEPT !.i = s.i + 1 + tag.skip], word)

comment_word_loop(str, s, word) ==
    IF s.i >= Len(str) THEN [s |-> s, closed |-> FALSE, j |-> s.i]
    ELSE IF qe_isalpha(At(str, s.i))
    THEN comment_word_tag(str, s, word,
                          algol68_get_tag(KBUF_SIZE, At(str, s.i), str, s.i + 1))
    ELSE comment_word_loop(str, [s EXCEPT !.i = s.i + 1], word)

comment_word_body(str, s, word, style) ==
    comment_word_end(s.i, comment_word_loop(str, s, word), style)

in_comment_comment(str, s) ==
    comment_word_body(str, s, W_comment, ALGOL68_STYLE_COMMENT)

in_comment_co(str, s) ==
    comment_word_body(str, s, W_co, ALGOL68_STYLE_COMMENT)

in_comment_pr(str, s) ==
    comment_word_body(str, s, W_pr, ALGOL68_STYLE_PREPROCESS)

\* lines 250-261: a number
RECURSIVE number_loop(_, _)
number_loop(str, i) ==
    IF i >= Len(str) THEN i
    ELSE IF qe_isalnum(At(str, i)) \/ At(str, i) = CH.dot
            \/ ((At(str, i) = CH.plus \/ At(str, i) = CH.minus)
                /\ qe_tolower(At(str, i - 1)) = CH.e)
    THEN number_loop(str, i + 1)
    ELSE i

parse_number(str, s, start) ==
    put_style([s EXCEPT !.i = number_loop(str, s.i)], start, ALGOL68_STYLE_NUMBER)

\* lines 375-381: k is the offset after the word and one optional blank
call_style(str, k) ==
    IF At(str, k) = CH.lparen /\ At(str, k + 1) # CH.star
    THEN ALGOL68_STYLE_FUNCTION
    ELSE ALGOL68_STYLE_IDENTIFIER

\* lines 369-382: a word that is no broken tag and opens no comment
word_style(str, i, kbuf, flags) ==
    IF strfind(algol68_keywords, kbuf) THEN ALGOL68_STYLE_KEYWORD
    ELSE IF strfind(algol68_types, kbuf) \/ BitAnd(flags, HAS_UPPER) # 0
    THEN ALGOL68_STYLE_TYPE
    ELSE call_style(str, IF qe_isblank(At(str, i)) THEN i + 1 ELSE i)

\* the opening word of a keyword-delimited comment: SET_STYLE and the flag
open_comment(s, start, flag) ==
    put_style([s EXCEPT !.colstate = BitOr(s.colstate, flag)],
              start, ALGOL68_STYLE_KEYWORD)

\* lines 265-383: s.i is the offset after the tag, kbuf the folded tag
word_kind(str, s, start, kbuf) ==
    IF s.i = Len(str) - 1 /\ At(str, s.i) = CH.bslash
    THEN in_broken_tag(str, [s EXCEPT !.i = s.i + 1], start)
    ELSE IF strequal(kbuf, W_note)
    THEN in_comment_note(str, [open_comment(s, start, IN_ALGOL68_COMMENT_NOTE)
                                 EXCEPT !.level = 1])
    ELSE IF strequal(kbuf, W_comment)
    THEN in_comment_comment(str, open_comment(s, start, IN_ALGOL68_COMMENT_COMMENT))
    ELSE IF strequal(kbuf, W_co)
    THEN in_comment_co(str, open_comment(s, start, IN_ALGOL68_COMMENT_CO))
    ELSE IF strequal(kbuf, W_pr)
    THEN in_comment_pr(str, open_comment(s, start, IN_ALGOL68_COMMENT_PR))
    ELSE put_style(s, start, word_style(str, s.i, kbuf, s.flags))

\* line 264: i += algol68_get_tag(kbuf, countof(kbuf), c, str, i, n, &flags)
word_tag(str, s, start, tag) ==
    word_kind(str, [s EXCEPT !.i = s.i + tag.skip, !.flags = tag.flags], start,
              tag.dest)

\* lines 263-383: identifiers and keywords
parse_word(str, s, start, c) ==
    word_tag(str, s, start, algol68_get_tag(KBUF_SIZE, c, str, s.i))

\* a single-character comment opens: the flag (and the history value)
open_char(s, flag, c) ==
    [s EXCEPT !.colstate = BitOr(s.colstate, flag), !.opened = c]

\* lines 193-390: the switch on c = str[start], with s.i = start + 1
scan_switch(str, s, start, c) ==
    IF c = CH.sharp
    THEN in_comment_char(str, open_char(s, IN_ALGOL68_COMMENT_SHARP, c), start, c)
    ELSE IF c = CH.cent
    THEN in_comment_char(str, open_char(s, IN_ALGOL68_COMMENT_CENT, c), start, c)
    ELSE IF c = CH.pound
    THEN in_comment_char(str, open_char(s, IN_ALGOL68_COMMENT_POUND, c), start, c)
    ELSE IF c = CH.lbrace
    THEN in_comment_brace(str,
             [s EXCEPT !.colstate = BitOr(s.colstate, IN_ALGOL68_COMMENT_BRACES),
                       !.level = 1],
             start)
    ELSE IF c = CH.quote
    THEN in_string(str, s, start)
    ELSE IF c = CH.dollar
    THEN s
    ELSE IF qe_isdigit(c)
    THEN parse_number(str, s, start)
    ELSE IF qe_isalpha(c)
    THEN parse_word(str, s, start, c)
    ELSE s

\* lines 191-390: one turn of the main loop; s.i < n
scan_token(str, s) ==
    scan_switch(str, [s EXCEPT !.i = s.i + 1], s.i, At(str, s.i))

\* lines 190-391
RECURSIVE main_loop(_, _)
main_loop(str, s) ==
    IF s.i >= Len(str) THEN s ELSE main_loop(str, scan_token(str, s))

\* line 185: the tag at the start of the line after a broken tag
\* variant: the case indications of the tag are not stored into flags
continuation_tag_stale(str, s, tag) ==
    in_broken_tag(str, [s EXCEPT !.i = 1 + tag.skip], 0)

continuation_tag(str, s, tag) ==
    in_broken_tag(str, [s EXCEPT !.i = 1 + tag.skip, !.flags = tag.flags], 0)

\* lines 183-187, the flag being cleared already (line 182)
resume_continuation(str, s) ==
    IF 0 < Len(str) /\ qe_isalnum_(At(str, 0))
    THEN continuation_tag(str, s, algol68_get_tag(KBUF_SIZE, At(str, 0), str, 1))
    ELSE s

\* lines 178-188: the entry when no comment is carried
resume_idle(str, s) ==
    IF BitAnd(s.colstate, IN_ALGOL68_STRING) # 0
    THEN in_string(str, s, 0)
    ELSE IF BitAnd(s.colstate, IN_ALGOL68_CONTINUATION) # 0
    THEN resume_continuation(str,
             [s EXCEPT !.colstate = BitClear(s.colstate, IN_ALGOL68_CONTINUATION)])
    ELSE s

\* lines 155-175: the jump into the body of the carried comment
resume_dispatch(str, s) ==
    IF BitAnd(s.colstate, IN_ALGOL68_COMMENT_COMMENT) # 0
    THEN in_comment_comment(str, s)
    ELSE IF BitAnd(s.colstate, IN_ALGOL68_COMMENT_CO) # 0
    THEN in_comment_co(str, s)
    ELSE IF BitAnd(s.colstate, IN_ALGOL68_COMMENT_NOTE) # 0
    THEN in_comment_note(str, s)
    ELSE IF BitAnd(s.colstate, IN_ALGOL68_COMMENT_PR) # 0
    THEN in_comment_pr(str, s)
    ELSE IF BitAnd(s.colstate, IN_ALGOL68_COMMENT_BRACES) # 0
    THEN in_comment_brace(str, s, 0)
    ELSE IF BitAnd(s.colstate, IN_ALGOL68_COMMENT_SHARP) # 0
    THEN in_comment_char(str, s, 0, CH.sharp)
    ELSE IF BitAnd(s.colstate, IN_ALGOL68_COMMENT_CENT) # 0
    THEN in_comment_char(str, s, 0, CH.cent)
    ELSE IF BitAnd(s.colstate, IN_ALGOL68_COMMENT_POUND) # 0
    THEN in_comment_char(str, s, 0, CH.pound)
    ELSE resume_idle(str, [s EXCEPT !.level = 0,
                                    !.colstate = BitClear(s.colstate,
                                                          IN_ALGOL68_COMMENT)])

\* variant: the carried level is not decoded, the body resumes at level 1
resume_comment_relevelled(str, s) ==
    resume_dispatch(str,
        [s EXCEPT !.level = 1,
                  !.colstate = BitClear(s.colstate, 255 * IN_ALGOL68_COMMENT_LEVEL)])

\* variant: the level bits stay in colstate on resume
resume_comment_uncleared(str, s) ==
    resume_dispatch(str,
        [s EXCEPT !.level = s.colstate \div IN_ALGOL68_COMMENT_LEVEL])

\* lines 152-176: resuming inside a comment
resume_comment(str, s) ==
    resume_dispatch(str,
        [s EXCEPT !.level = s.colstate \div IN_ALGOL68_COMMENT_LEVEL,
                  !.colstate = BitClear(s.colstate, 255 * IN_ALGOL68_COMMENT_LEVEL)])

\* lines 152-188: where the scan of the line starts from
resume(str, s) ==
    IF BitAnd(s.colstate, IN_ALGOL68_COMMENT) # 0
    THEN resume_comment(str, s)
    ELSE resume_idle(str, s)

\* lines 147-150: the locals at entry; flags0 is the indeterminate initial
\* value of the local flags
locals(colorize_state, str, flags0) ==
    [ i        |-> 0,
      colstate |-> colorize_state,
      level    |-> 0,
      sbuf     |-> [k \in 1..Len(str) |-> ALGOL68_STYLE_TEXT],
      flags    |-> flags0,
      opened   |-> 0,
      writes   |-> {} ]

\* The whole call: the result is the final record of locals (colstate is
\* what is stored to cp->colorize_state, sbuf the styles written).
algol68_colorize_line(colorize_state, str, flags0) ==
    main_loop(str, resume(str, locals(colorize_state, str, flags0)))

(* ---------------- the lines the host feeds ------------------------------ *)
\* A line is the concatenation of chunks of a vocabulary; each specification
\* below feeds the lines of one vocabulary, at most its Max...Chunks chunks
\* long.  The nesting level carried between lines is kept within MaxLevel.
MaxChunks == 2
MaxCharChunks == 4
MaxBraceChunks == 4
MaxNoteChunks == 4
MaxStringChunks == 4
MaxWordChunks == 3
MaxLevel == 3
MaxDeepChunks == 2
MaxDeepLevel == 515
MaxTagChunks == 4
MaxSize == 4
MaxCallChunks == 4
MaxBodyChunks == 3

RECURSIVE Concat(_)
Concat(chunks) ==
    IF chunks = <<>> THEN <<>> ELSE Head(chunks) \o Concat(Tail(chunks))

LinesOf(vocab, m) ==
    UNION { { Concat(cs) : cs \in [1..k -> vocab] } : k \in 0..m }

W_x == <<120>>                \* x
W_F == <<70>>                 \* F
W_NOTE == <<78,111,84,69>>    \* NoTE
W_if == <<105,102>>           \* if
W_int == <<105,110,116>>      \* int
W_a15 == <<97,97,97,97,97,97,97,97,97,97,97,97,97,97,97>>  \* 15 times a

\* every opener of a carried construct
Vocab ==
    { <<CH.lbrace>>, <<CH.rbrace>>, <<CH.sharp>>, <<CH.pound>>, <<CH.quote>>,
      <<CH.bslash>>, <<CH.space>>, W_F, W_note, W_eton, W_co, W_comment, W_pr }

CharVocab ==
    { <<CH.sharp>>, <<CH.cent>>, <<CH.pound>>, W_x, <<CH.space>>, <<CH.lbrace>> }

BraceVocab ==
    { <<CH.lbrace>>, <<CH.rbrace>>, W_x, <<CH.space>>, <<CH.sharp>>, <<CH.quote>> }

NoteVocab ==
    { W_note, W_NOTE, W_eton, <<CH.space>>, <<CH.lbrace>> }

StringVocab ==
    { <<CH.quote>>, <<CH.bslash>>, W_x, <<CH.space>>, <<CH.sharp>> }

WordVocab ==
    { W_x, W_F, W_if, W_int, W_co, W_a15, <<CH.space>>, <<CH.lparen>>, <<CH.star>>,
      <<CH.bslash>> }

\* a run of 32 opening braces
W_deep == [k \in 1..32 |-> CH.lbrace]

TagVocab == { W_x, W_F, <<50>>, <<CH.space>> }

CallVocab ==
    { W_x, <<CH.space>>, <<CH.tab>>, <<CH.lparen>>, <<CH.star>>, <<CH.sharp>> }

BodyVocab ==
    { W_co, W_comment, W_pr, W_note, <<50>>, <<CH.under>>, W_x, <<CH.space>> }

DeepVocab == { W_deep, <<CH.lbrace>>, <<CH.rbrace>>, W_x }

Lines == LinesOf(Vocab, MaxChunks)
DeepLines == LinesOf(DeepVocab, MaxDeepChunks)
TagLines == LinesOf(TagVocab, MaxTagChunks)
CallLines == LinesOf(CallVocab, MaxCallChunks)
BodyLines == LinesOf(BodyVocab, MaxBodyChunks)
CharLines == LinesOf(CharVocab, MaxCharChunks)
BraceLines == LinesOf(BraceVocab, MaxBraceChunks)
NoteLines == LinesOf(NoteVocab, MaxNoteChunks)
StringLines == LinesOf(StringVocab, MaxStringChunks)
WordLines == LinesOf(WordVocab, MaxWordChunks)

(* ---------------- the state machine ------------------------------------- *)
(* colorize_state is cp->colorize_state, str the line and sbuf the style    *)
(* buffer of the call just made; prior is the state that call started from. *)
(* opener and prior_opener are history variables: the delimiter that opened *)
(* the single-character comment carried in colorize_state and in prior.     *)
VARIABLES colorize_state, opener, str, sbuf, prior, prior_opener, pc

\* One call of algol68_get_tag on its own: tag_size is the argument size,
\* tag_i the argument i (the seed c is the code point before it, n is the
\* length of str) and tag_out what the call returned and stored.
VARIABLES tag_size, tag_i, tag_out

tagvars == <<tag_size, tag_i, tag_out>>

vars == <<colorize_state, opener, str, sbuf, prior, prior_opener, pc,
          tag_size, tag_i, tag_out>>

NoTag == [skip |-> 0, dest |-> <<>>, term |-> FALSE, flags |-> 0]

Init ==
    /\ colorize_state = 0
    /\ opener = 0
    /\ str = <<>>
    /\ sbuf = <<>>
    /\ prior = 0
    /\ prior_opener = 0
    /\ pc = "ready"
    /\ tag_size = 0
    /\ tag_i = 0
    /\ tag_out = NoTag

\* One call of the colorizer on a line; flags0 is whatever the uninitialized
\* local flags holds.
Colorize(lines) ==
    /\ pc = "ready"
    /\ \E line \in lines, flags0 \in {0, HAS_UPPER} :
         LET r == algol68_colorize_line(colorize_state, line, flags0)
         IN  /\ r.colstate \div IN_ALGOL68_COMMENT_LEVEL <= MaxLevel
             /\ str' = line
             /\ sbuf' = r.sbuf
             /\ prior' = colorize_state
             /\ prior_opener' = opener
             /\ colorize_state' = r.colstate
             /\ opener' = IF BitAnd(r.colstate, IN_ALGOL68_COMMENT_SHARP
                                                 + IN_ALGOL68_COMMENT_CENT) = 0
                          THEN 0
                          ELSE IF r.opened # 0 THEN r.opened ELSE opener
             /\ pc' = "done"
             /\ UNCHANGED tagvars

\* The host moves on to the next line with the state just stored.
NextLine ==
    /\ pc = "done"
    /\ pc' = "ready"
    /\ str' = <<>>
    /\ sbuf' = <<>>
    /\ prior' = colorize_state
    /\ prior_opener' = opener
    /\ UNCHANGED <<colorize_state, opener>>
    /\ UNCHANGED tagvars

ColorizeLine == Colorize(Lines)
ColorizeCharLine == Colorize(CharLines)
ColorizeBraceLine == Colorize(BraceLines)
ColorizeNoteLine == Colorize(NoteLines)
ColorizeStringLine == Colorize(StringLines)
ColorizeWordLine == Colorize(WordLines)
ColorizeCallLine == Colorize(CallLines)
ColorizeBodyLine == Colorize(BodyLines)

\* the same call on lines that nest deeper than 255
ColorizeDeepLine ==
    /\ pc = "ready"
    /\ \E line \in DeepLines, flags0 \in {0, HAS_UPPER} :
         LET r == algol68_colorize_line(colorize_state, line, flags0)
         IN  /\ r.colstate \div IN_ALGOL68_COMMENT_LEVEL <= MaxDeepLevel
             /\ str' = line /\ sbuf' = r.sbuf /\ prior' = colorize_state
             /\ colorize_state' = r.colstate
             /\ pc' = "done"
             /\ UNCHANGED <<opener, prior_opener>>
             /\ UNCHANGED tagvars

\* the calls of algol68_get_tag: any capacity, any seed that is a word
\* character, at any offset of any line
InitTag ==
    /\ colorize_state = 0
    /\ opener = 0
    /\ str \in TagLines
    /\ sbuf = <<>>
    /\ prior = 0
    /\ prior_opener = 0
    /\ pc = "call"
    /\ tag_size \in 0..MaxSize
    /\ tag_i \in 1..Len(str)
    /\ qe_isalnum_(At(str, tag_i - 1))
    /\ tag_out = NoTag

GetTag ==
    /\ pc = "call"
    /\ tag_out' = algol68_get_tag(tag_size, At(str, tag_i - 1), str, tag_i)
    /\ pc' = "returned"
    /\ UNCHANGED <<colorize_state, opener, str, sbuf, prior, prior_opener,
                   tag_size, tag_i>>

Next == ColorizeLine \/ NextLine
NextDeep == ColorizeDeepLine \/ NextLine
NextCall == ColorizeCallLine \/ NextLine
NextBody == ColorizeBodyLine \/ NextLine
NextChar == ColorizeCharLine \/ NextLine
NextBrace == ColorizeBraceLine \/ NextLine
NextNote == ColorizeNoteLine \/ NextLine
NextString == ColorizeStringLine \/ NextLine
NextWord == ColorizeWordLine \/ NextLine

Spec == Init /\ [][Next]_vars
SpecChar == Init /\ [][NextChar]_vars
SpecBrace == Init /\ [][NextBrace]_vars
SpecNote == Init /\ [][NextNote]_vars
SpecString == Init /\ [][NextString]_vars
SpecWord == Init /\ [][NextWord]_vars
SpecDeep == Init /\ [][NextDeep]_vars
SpecTag == InitTag /\ [][GetTag]_vars
SpecCall == Init /\ [][NextCall]_vars
SpecBody == Init /\ [][NextBody]_vars

(* ======================= the claims ===================================== *)
Has(x, f) == BitAnd(x, f) # 0
Level(x) == x \div IN_ALGOL68_COMMENT_LEVEL
Done == pc = "done"
N == Len(str)
CommentFlags ==
    { IN_ALGOL68_COMMENT_COMMENT, IN_ALGOL68_COMMENT_CO, IN_ALGOL68_COMMENT_SHARP,
      IN_ALGOL68_COMMENT_CENT, IN_ALGOL68_COMMENT_BRACES, IN_ALGOL68_COMMENT_NOTE,
      IN_ALGOL68_COMMENT_PR }
\* no comment, string or broken tag is carried
Idle(x) ==
    BitAnd(x, IN_ALGOL68_COMMENT + IN_ALGOL68_STRING + IN_ALGOL68_CONTINUATION) = 0
\* the positions a..b (1-based, inclusive) of the line all have this style
AllStyled(a, b, style) == \A k \in a..b : sbuf[k] = style
Min(S) == CHOOSE x \in S : \A y \in S : x <= y
\* how many of the positions a..b hold the code point c
Count(c, a, b) == Cardinality({k \in a..b : str[k] = c})

(* C1: in every carried state the tag-continuation flag is never set       *)
(* together with the string-continuation flag or with a comment-kind flag. *)
C1_OneConstruct ==
    Has(colorize_state, IN_ALGOL68_CONTINUATION)
        => /\ ~Has(colorize_state, IN_ALGOL68_STRING)
           /\ BitAnd(colorize_state, IN_ALGOL68_COMMENT) = 0

(* C2: a line scanned with the tag-continuation flag carried returns the   *)
(* flag set only if the line itself ends with a word immediately followed  *)
(* by a backslash as its last code point.                                  *)
EndsWithBrokenTag ==
    /\ N >= 2
    /\ str[N] = CH.bslash
    /\ qe_isalnum_(str[N - 1])

C2_ContinuationCloses ==
    (Done /\ Has(prior, IN_ALGOL68_CONTINUATION)
          /\ Has(colorize_state, IN_ALGOL68_CONTINUATION))
        => EndsWithBrokenTag

(* C3: in every carried state at most one comment-kind flag is set, and    *)
(* the string-continuation flag is never set together with one.            *)
C3_OneCommentKind ==
    /\ Cardinality({f \in CommentFlags : Has(colorize_state, f)}) <= 1
    /\ ~(Has(colorize_state, IN_ALGOL68_STRING)
         /\ BitAnd(colorize_state, IN_ALGOL68_COMMENT) # 0)

\* a line that closed the carried comment and left one of another kind open
C3_Witness ==
    /\ Done
    /\ BitAnd(prior, IN_ALGOL68_COMMENT) # 0
    /\ BitAnd(colorize_state, IN_ALGOL68_COMMENT) # 0
    /\ BitAnd(colorize_state, IN_ALGOL68_COMMENT) # BitAnd(prior, IN_ALGOL68_COMMENT)

\* After position k the line is scanned by the rules of the idle state: the
\* styles and the constructs left open are those of a scan of the rest of
\* the line from state 0; a continuation bit carried in is not touched.
IdleRest(k) ==
    LET rest == SubSeq(str, k + 1, N)
        f    == algol68_colorize_line(0, rest, 0)
    IN  /\ \A j \in 1..Len(rest) : sbuf[k + j] = f.sbuf[j]
        /\ colorize_state
             = BitOr(f.colstate, BitAnd(prior, IN_ALGOL68_CONTINUATION))

\* code points that open nothing in the idle state
Inert == {CH.space, 120}
\* the first position of the line that holds no inert code point (0: none)
FirstActive ==
    IF \A k \in 1..N : str[k] \in Inert THEN 0
    ELSE Min({k \in 1..N : str[k] \notin Inert})

(* C4: a single-character comment opened from Idle by d (one of '#', cent, *)
(* pound) closes at the first later occurrence of the same d, on its own   *)
(* line or on a following line, and at no occurrence of another delimiter; *)
(* until then it stays open, and its span is styled comment.               *)
CharDelims == {CH.sharp, CH.cent, CH.pound}
CharFlag(d) ==
    IF d = CH.sharp THEN IN_ALGOL68_COMMENT_SHARP
    ELSE IF d = CH.cent THEN IN_ALGOL68_COMMENT_CENT
    ELSE IN_ALGOL68_COMMENT_POUND

\* the comment of delimiter d styled from position start, its body from
\* position from
CharComment(d, start, from) ==
    LET hits == {k \in from..N : str[k] = d}
    IN  IF hits = {}
        THEN /\ AllStyled(start, N, ALGOL68_STYLE_COMMENT)
             /\ BitAnd(colorize_state, IN_ALGOL68_COMMENT) = CharFlag(d)
        ELSE /\ AllStyled(start, Min(hits), ALGOL68_STYLE_COMMENT)
             /\ IdleRest(Min(hits))

C4_Resumed(delims) ==
    (Done /\ prior_opener \in delims /\ Idle(prior - CharFlag(prior_opener)))
        => CharComment(prior_opener, 1, 1)

C4_Opened(delims) ==
    (Done /\ Idle(prior) /\ FirstActive # 0)
        => (str[FirstActive] \in delims
              => CharComment(str[FirstActive], FirstActive, FirstActive + 1))

C4_SameDelimiterCloses == C4_Resumed(CharDelims) /\ C4_Opened(CharDelims)

(* C5: a bracket comment opened from Idle by '{' closes exactly at the      *)
(* first '}' at which the count of '{' (opener included) minus the count   *)
(* of '}' reaches 0, over any number of lines; a line that ends before     *)
(* that returns the braces flag with the level equal to that difference;   *)
(* the whole span is styled comment and after the closing '}' no comment   *)
(* flag and no level are left.                                             *)
\* the depth after position k of a comment that is level deep before from
BraceDepth(level, from, k) ==
    level + Count(CH.lbrace, from, k) - Count(CH.rbrace, from, k)

BraceComment(level, from) ==
    LET closes == {k \in from..N : BraceDepth(level, from, k) = 0}
    IN  IF closes = {}
        THEN /\ AllStyled(from, N, ALGOL68_STYLE_COMMENT)
             /\ BitAnd(colorize_state, IN_ALGOL68_COMMENT + IN_ALGOL68_STRING)
                  = IN_ALGOL68_COMMENT_BRACES
             /\ Level(colorize_state) = BraceDepth(level, from, N)
        ELSE /\ str[Min(closes)] = CH.rbrace
             /\ AllStyled(from, Min(closes), ALGOL68_STYLE_COMMENT)
             /\ IdleRest(Min(closes))
             /\ (Min(closes) = N
                   => /\ BitAnd(colorize_state, IN_ALGOL68_COMMENT) = 0
                      /\ Level(colorize_state) = 0)

C5_BraceNesting ==
    /\ (Done /\ Has(prior, IN_ALGOL68_COMMENT_BRACES))
          => BraceComment(Level(prior), 1)
    /\ (Done /\ Idle(prior) /\ FirstActive # 0)
          => (str[FirstActive] = CH.lbrace => BraceComment(0, FirstActive))

\* a line that brings a comment carried two deep, through a nested pair,
\* to its closing brace
C5_Witness ==
    /\ Done
    /\ Has(prior, IN_ALGOL68_COMMENT_BRACES)
    /\ Level(prior) = 2
    /\ Count(CH.lbrace, 1, N) = 1
    /\ Count(CH.rbrace, 1, N) = 3
    /\ str[N] = CH.rbrace
    /\ colorize_state = 0

\* "{ a {b} c }" in small: opened, nested and closed within one line
C5_WitnessOneLine ==
    /\ Done
    /\ prior = 0
    /\ N = 4
    /\ str[1] = CH.lbrace /\ str[2] = CH.lbrace
    /\ str[3] = CH.rbrace /\ str[4] = CH.rbrace
    /\ colorize_state = 0
    /\ AllStyled(1, 4, ALGOL68_STYLE_COMMENT)

(* C6: a NOTE comment opened from Idle by the word 'note' (any letter case) *)
(* closes exactly at the first 'eton' word at which the count of 'note'    *)
(* words (opener included) minus the count of 'eton' words reaches 0, also *)
(* over several lines; a line that ends before that returns the NOTE flag  *)
(* with the level equal to that difference; the closing 'eton' is styled   *)
(* keyword, flag and level are cleared and the rest of the line is scanned *)
(* by the Idle rules.                                                      *)
\* the words of the line from position from on: the maximal runs of word
\* characters, as <<first, last>>
Words(from) ==
    { w \in (from..N) \X (from..N) :
        /\ w[1] <= w[2]
        /\ \A k \in w[1]..w[2] : qe_isalnum_(str[k])
        /\ (w[1] = from \/ ~qe_isalnum_(str[w[1] - 1]))
        /\ (w[2] = N \/ ~qe_isalnum_(str[w[2] + 1])) }

Folded(w) == [k \in 1..(w[2] - w[1] + 1) |-> qe_tolower(str[w[1] + k - 1])]

\* the level after those of the words that start at or before position k
NoteDepth(level, words, k) ==
    level + Cardinality({w \in words : w[1] <= k /\ Folded(w) = W_note})
          - Cardinality({w \in words : w[1] <= k /\ Folded(w) = W_eton})

NoteComment(level, from) ==
    LET words  == Words(from)
        closes == {w \in words :
                     Folded(w) = W_eton /\ NoteDepth(level, words, w[1]) = 0}
    IN  IF closes = {}
        THEN /\ AllStyled(from, N, ALGOL68_STYLE_COMMENT)
             /\ BitAnd(colorize_state, IN_ALGOL68_COMMENT + IN_ALGOL68_STRING)
                  = IN_ALGOL68_COMMENT_NOTE
             /\ Level(colorize_state) = NoteDepth(level, words, N)
        ELSE LET w == CHOOSE v \in closes : \A u \in closes : v[1] <= u[1]
             IN  /\ AllStyled(from, w[1] - 1, ALGOL68_STYLE_COMMENT)
                 /\ AllStyled(w[1], w[2], ALGOL68_STYLE_KEYWORD)
                 /\ IdleRest(w[2])
                 /\ (w[2] = N
                       => /\ BitAnd(colorize_state, IN_ALGOL68_COMMENT) = 0
                          /\ Level(colorize_state) = 0)

\* the line's first word, when only blanks precede it, is 'note' and is not
\* a tag broken by a final backslash
OpensNote(w) ==
    /\ Folded(w) = W_note
    /\ \A k \in 1..(w[1] - 1) : str[k] = CH.space
    /\ ~(w[2] = N - 1 /\ str[N] = CH.bslash)
    /\ w \in Words(1)

C6_NoteNesting ==
    /\ (Done /\ Has(prior, IN_ALGOL68_COMMENT_NOTE))
          => NoteComment(Level(prior), 1)
    /\ (Done /\ Idle(prior))
          => \A w \in Words(1) :
                OpensNote(w) => /\ AllStyled(w[1], w[2], ALGOL68_STYLE_KEYWORD)
                                /\ NoteComment(1, w[2] + 1)

\* a comment carried two deep is closed by the second 'eton' of the line,
\* which is styled keyword, and the brace after it opens a new comment
C6_Witness ==
    /\ Done
    /\ Has(prior, IN_ALGOL68_COMMENT_NOTE)
    /\ Level(prior) = 2
    /\ Cardinality({w \in Words(1) : Folded(w) = W_eton}) = 2
    /\ \E k \in 1..N : sbuf[k] = ALGOL68_STYLE_KEYWORD
    /\ str[N] = CH.lbrace
    /\ BitAnd(colorize_state, IN_ALGOL68_COMMENT) = IN_ALGOL68_COMMENT_BRACES
    /\ Level(colorize_state) = 1

(* C7: a string opened from Idle by '"' whose line ends with a backslash as *)
(* its very last code point, with no closing '"' before it, returns the    *)
(* string-continuation flag; on the following lines the string stays open  *)
(* until the first '"', where the flag is cleared and Idle scanning        *)
(* resumes after it; every code point of the string is styled string, and  *)
(* a backslash that is not the last code point of its line has no effect.  *)
Quotes(from) == {k \in from..N : str[k] = CH.quote}

\* the string's body starts at position from; start is its first styled
\* position on this line
StringBody(start, from) ==
    IF Quotes(from) = {}
    THEN /\ AllStyled(start, N, ALGOL68_STYLE_STRING)
         /\ BitAnd(colorize_state, IN_ALGOL68_COMMENT) = 0
    ELSE /\ AllStyled(start, Min(Quotes(from)), ALGOL68_STYLE_STRING)
         /\ IdleRest(Min(Quotes(from)))
         /\ (Min(Quotes(from)) = N => ~Has(colorize_state, IN_ALGOL68_STRING))

\* the first '"' of the line, when only blanks and x precede it
OpensString(p) ==
    /\ p \in 1..N
    /\ str[p] = CH.quote
    /\ \A k \in 1..(p - 1) : str[k] \in Inert

C7_StringContinuation ==
    /\ (Done /\ Idle(prior))
          => \A p \in 1..N :
                OpensString(p)
                  => /\ StringBody(p, p + 1)
                     /\ (Quotes(p + 1) = {} /\ p < N /\ str[N] = CH.bslash
                           => Has(colorize_state, IN_ALGOL68_STRING))
    /\ (Done /\ Has(prior, IN_ALGOL68_STRING)
             /\ BitAnd(prior, IN_ALGOL68_COMMENT) = 0)
          => /\ StringBody(1, 1)
             /\ (Quotes(1) = {} => Has(colorize_state, IN_ALGOL68_STRING))

\* a carried string passes a backslash in the middle of the line, closes at
\* the '"' right after it, and the x after the '"' is an identifier
C7_Witness ==
    /\ Done
    /\ prior = IN_ALGOL68_STRING
    /\ N >= 3
    /\ str[N - 2] = CH.bslash
    /\ str[N - 1] = CH.quote
    /\ Quotes(1) = {N - 1}
    /\ AllStyled(1, N - 1, ALGOL68_STYLE_STRING)
    /\ sbuf[N] = ALGOL68_STYLE_IDENTIFIER
    /\ colorize_state = 0

\* a string opened on this line is left open by the final backslash
C7_WitnessOpen ==
    /\ Done
    /\ Idle(prior)
    /\ OpensString(1)
    /\ Quotes(2) = {}
    /\ N >= 3
    /\ str[N] = CH.bslash
    /\ colorize_state = IN_ALGOL68_STRING

(* C8: from Idle, a word that starts with an ASCII letter and contains an   *)
(* uppercase letter at any position, whatever its length, and whose        *)
(* folding is no keyword and none of note/comment/co/pr, is styled type; a *)
(* word without uppercase letter that is in neither table is styled        *)
(* identifier, or function when followed by '(' not followed by '*'.       *)
CommentWords == {W_note, W_comment, W_co, W_pr}
Separators == {CH.space, CH.lparen, CH.star}

\* w is a word of the line that the scanner meets in the Idle state: what
\* precedes it scans back to state 0 and ends with a separator
IdleWord(w) ==
    /\ w \in Words(1)
    /\ qe_isalpha(str[w[1]])
    /\ (w[1] > 1 => str[w[1] - 1] \in Separators)
    /\ algol68_colorize_line(0, SubSeq(str, 1, w[1] - 1), 0).colstate = 0

HasUpper(w) == \E k \in w[1]..w[2] : qe_isupper(str[k])

\* the code point k positions after the word, NUL past the end of the line
After(w, k) == IF w[2] + k <= N THEN str[w[2] + k] ELSE CH.nul

PlainStyle(w) ==
    IF After(w, 1) = CH.lparen /\ After(w, 2) # CH.star
    THEN {ALGOL68_STYLE_FUNCTION}
    ELSE IF qe_isblank(After(w, 1))
    THEN {ALGOL68_STYLE_IDENTIFIER, ALGOL68_STYLE_FUNCTION}
    ELSE {ALGOL68_STYLE_IDENTIFIER}

C8_UpperIsType ==
    (Done /\ Idle(prior))
      => \A w \in (1..N) \X (1..N) :
           (IdleWord(w) /\ Folded(w) \notin CommentWords)
             => /\ (HasUpper(w) /\ Folded(w) \notin algol68_keywords)
                     => AllStyled(w[1], w[2], ALGOL68_STYLE_TYPE)
                /\ (~HasUpper(w) /\ Folded(w) \notin algol68_keywords
                                 /\ Folded(w) \notin algol68_types)
                     => \E style \in PlainStyle(w) :
                           AllStyled(w[1], w[2], style)

(* C9: from Idle, a word that starts with an ASCII letter and is           *)
(* immediately followed by a backslash ending the line is styled type if   *)
(* it contains an uppercase letter and identifier otherwise, never keyword *)
(* and never opening a comment; the returned state has the tag-            *)
(* continuation flag; on the next line the leading run of word characters  *)
(* is a token of its own, styled type or identifier by its own case and    *)
(* not looked up in the tables.                                            *)
CaseStyle(w) ==
    IF HasUpper(w) THEN ALGOL68_STYLE_TYPE ELSE ALGOL68_STYLE_IDENTIFIER

BrokenWord(w) ==
    /\ IdleWord(w)
    /\ w[2] = N - 1
    /\ str[N] = CH.bslash

LeadingRun(w) == w \in Words(1) /\ w[1] = 1

C9_BrokenTag ==
    /\ (Done /\ Idle(prior))
          => \A w \in (1..N) \X (1..N) :
                BrokenWord(w)
                  => /\ AllStyled(w[1], w[2], CaseStyle(w))
                     /\ Has(colorize_state, IN_ALGOL68_CONTINUATION)
                     /\ BitAnd(colorize_state,
                               IN_ALGOL68_COMMENT + IN_ALGOL68_STRING) = 0
    /\ (Done /\ prior = IN_ALGOL68_CONTINUATION)
          => \A w \in (1..N) \X (1..N) :
                LeadingRun(w) => AllStyled(w[1], w[2], CaseStyle(w))

(* C10: restart idempotence: scanning a line with the state carried from   *)
(* the line before gives the state and the styles that the scan of the     *)
(* whole buffer from state 0 gave for that line; one line scan is a        *)
(* function of the prior state and the line only, whatever the locals hold *)
(* at entry.                                                               *)
C10_RestartIdempotence ==
    Done => \A flags0 \in {0, HAS_UPPER} :
               /\ algol68_colorize_line(prior, str, flags0).colstate = colorize_state
               /\ algol68_colorize_line(prior, str, flags0).sbuf = sbuf

\* the scan restarts after a broken tag and styles the leading F by its case
C10_Witness ==
    /\ Done
    /\ Has(prior, IN_ALGOL68_CONTINUATION)
    /\ N >= 2
    /\ str[1] = 70
    /\ sbuf[1] = ALGOL68_STYLE_TYPE
    /\ sbuf[N] = ALGOL68_STYLE_COMMENT
    /\ BitAnd(colorize_state, IN_ALGOL68_COMMENT) # 0

(* C11: a still-open construct is a stable state: an empty line scanned    *)
(* with a carried state that has a comment-kind flag or the string-        *)
(* continuation flag returns the same state, flag and nesting level alike. *)
C11_EmptyLineKeepsState ==
    (Done /\ N = 0 /\ BitAnd(prior, IN_ALGOL68_COMMENT + IN_ALGOL68_STRING) # 0)
      => colorize_state = prior

\* an empty line after "{ unterminated": braces flag, level 1, unchanged
C11_Witness ==
    /\ Done
    /\ N = 0
    /\ prior = IN_ALGOL68_COMMENT_BRACES + IN_ALGOL68_COMMENT_LEVEL
    /\ colorize_state = prior

(* C12: the nesting level stored in the carried state is always in 0..255  *)
(* and round-trips across the line boundary: in every state with the       *)
(* braces or the NOTE flag the level that the next line decodes equals the *)
(* nesting depth at the end of the line, also beyond 255 unclosed openers. *)
C12_LevelRoundTrip ==
    (Done /\ BitAnd(colorize_state,
                    IN_ALGOL68_COMMENT_BRACES + IN_ALGOL68_COMMENT_NOTE) # 0)
      => /\ Level(colorize_state) \in 0..255
         /\ Level(colorize_state) = algol68_colorize_line(prior, str, 0).level

(* C13: the return value of the tag extractor, for a seed that is a word   *)
(* character at offset i-1 and the rest of the line str[i..n), is always   *)
(* >= 1 and equals the number of positions spanned by the whole word, the  *)
(* seed included.                                                          *)
Returned == pc = "returned"

\* the number of word characters in a row from the 0-based offset p on
RECURSIVE RunLen(_)
RunLen(p) == IF p < N /\ qe_isalnum_(str[p + 1]) THEN 1 + RunLen(p + 1) ELSE 0

C13_TagSpan ==
    Returned => /\ tag_out.skip >= 1
                /\ tag_out.skip = RunLen(tag_i - 1)

(* C13 as the code has it: the return value is always >= 0 and equals the  *)
(* number of word characters that follow the seed, that is the length of   *)
(* the whole word less the seed, which the caller has consumed already.    *)
C13_TagSpanAfterSeed ==
    Returned => /\ tag_out.skip >= 0
                /\ tag_out.skip = RunLen(tag_i - 1) - 1

\* a word of one letter returns 0, a word of three returns 2
C13_Witness ==
    /\ Returned
    /\ RunLen(tag_i - 1) = 3
    /\ tag_out.skip = 2
    /\ tag_i = 2

(* C14: the return value of the tag extractor does not depend on the       *)
(* capacity: for every word and every size >= 0 it returns what it returns *)
(* with unbounded capacity, it stores exactly the first min(word length,   *)
(* size-1) folded characters of the word, and when size > 0 it writes the  *)
(* terminator at that count, never at or beyond index size.                *)
Stored == IF tag_size = 0 THEN 0 ELSE Min({RunLen(tag_i - 1), tag_size - 1})

C14_CapacityIndependent ==
    Returned
      => /\ tag_out.skip
              = algol68_get_tag(N + 2, At(str, tag_i - 1), str, tag_i).skip
         /\ tag_out.dest = [k \in 1..Stored |-> qe_tolower(str[tag_i - 1 + k])]
         /\ (tag_size > 0 => tag_out.term /\ Len(tag_out.dest) < tag_size)
         /\ (tag_size = 0 => ~tag_out.term)

\* a word of four with an uppercase letter cut to two stored characters
C14_Witness ==
    /\ Returned
    /\ RunLen(tag_i - 1) = 4
    /\ tag_size = 3
    /\ Len(tag_out.dest) = 2
    /\ tag_out.skip = 3
    /\ \E k \in 1..2 : qe_isupper(str[tag_i - 1 + k])

(* C15: the line scanner is total: for every carried state reachable from  *)
(* 0 and every line the scan ends with a next state, the cursor advances   *)
(* monotonically and ends exactly at n, and every style write covers a     *)
(* range [start, end) with 0 <= start <= end <= n.                         *)
\* every turn of the main loop from s on moves the cursor forward, within n
RECURSIVE Advances(_)
Advances(s) ==
    \/ s.i >= N
    \/ /\ scan_token(str, s).i > s.i
       /\ scan_token(str, s).i <= N
       /\ Advances(scan_token(str, s))

C15_ScannerTotal ==
    Done => LET entry == resume(str, locals(prior, str, 0))
                r     == main_loop(str, entry)
            IN  /\ entry.i \in 0..N
                /\ Advances(entry)
                /\ r.i = N
                /\ r.colstate = colorize_state
                /\ Len(r.sbuf) = N
                /\ \A w \in r.writes : 0 <= w[1] /\ w[1] <= w[2] /\ w[2] <= N

\* a carried comment closes in the line and other tokens follow: the body,
\* the closing word and the tokens after it are written one after the other
C15_Witness ==
    /\ Done
    /\ Has(prior, IN_ALGOL68_COMMENT_CO)
    /\ colorize_state = 0
    /\ Cardinality(algol68_colorize_line(prior, str, 0).writes) >= 3
    /\ \E w \in algol68_colorize_line(prior, str, 0).writes : w[2] = N /\ w[1] > 0

(* C20: for nesting depths up to 255, in every reachable state the level   *)
(* bits are non-zero if and only if the braces flag or the NOTE flag is    *)
(* set, and a line scanned from state 0 that has no comment opener, no '"' *)
(* and no final backslash returns state 0.                                 *)
PlainLine ==
    /\ \A k \in 1..N : str[k] \notin {CH.sharp, CH.cent, CH.pound, CH.lbrace, CH.quote}
    /\ \A w \in Words(1) : Folded(w) \notin CommentWords
    /\ (N > 0 => str[N] # CH.bslash)

C20_LevelIffNested ==
    /\ (Level(colorize_state) # 0
          <=> BitAnd(colorize_state,
                     IN_ALGOL68_COMMENT_BRACES + IN_ALGOL68_COMMENT_NOTE) # 0)
    /\ (Done /\ prior = 0 /\ PlainLine) => colorize_state = 0

\* a nested NOTE comment closes level by level; a plain line leaves state 0
C20_Witness ==
    /\ Done
    /\ Has(prior, IN_ALGOL68_COMMENT_NOTE)
    /\ Level(prior) = 2
    /\ Level(colorize_state) = 1
    /\ N > 0

C20_WitnessPlain ==
    /\ Done
    /\ prior = 0
    /\ PlainLine
    /\ N >= 2
    /\ \E k \in 1..N : sbuf[k] = ALGOL68_STYLE_TYPE

(* C16: from Idle, a lowercase word that is in neither table is styled     *)
(* function exactly when the next non-blank code point after the word,     *)
(* skipping any number of blanks (none or several), is '(' and that '(' is *)
(* not immediately followed by '*'; otherwise it is styled identifier.     *)
\* the position of the first code point after w that is no blank, N + 1
\* when there is none
NextNonBlank(w) ==
    Min({k \in (w[2] + 1)..(N + 1) : k = N + 1 \/ ~qe_isblank(str[k])})

IsCall(w) ==
    /\ NextNonBlank(w) <= N
    /\ str[NextNonBlank(w)] = CH.lparen
    /\ (NextNonBlank(w) = N \/ str[NextNonBlank(w) + 1] # CH.star)

C16_FunctionCall ==
    (Done /\ Idle(prior))
      => \A w \in (1..N) \X (1..N) :
           (/\ IdleWord(w)
            /\ ~HasUpper(w)
            /\ Folded(w) \notin algol68_keywords
            /\ Folded(w) \notin algol68_types
            /\ Folded(w) \notin CommentWords
            /\ ~BrokenWord(w))
             => AllStyled(w[1], w[2],
                          IF IsCall(w) THEN ALGOL68_STYLE_FUNCTION
                          ELSE ALGOL68_STYLE_IDENTIFIER)

(* C17: inside a COMMENT, CO or PR body, entered from Idle or resumed from *)
(* a carried state, the body closes at the first whole tag (a maximal run  *)
(* of letters, digits and underscores) whose folding equals the opening    *)
(* keyword and at no earlier position: the other delimiter words, and the  *)
(* keyword as a proper part of a longer run such as "2co" or "_co", do not *)
(* close it; the closing word is styled keyword, the comment flag is       *)
(* cleared, and there is no nesting.                                       *)
BodyKinds ==
    { [flag |-> IN_ALGOL68_COMMENT_COMMENT, word |-> W_comment,
       style |-> ALGOL68_STYLE_COMMENT],
      [flag |-> IN_ALGOL68_COMMENT_CO, word |-> W_co,
       style |-> ALGOL68_STYLE_COMMENT],
      [flag |-> IN_ALGOL68_COMMENT_PR, word |-> W_pr,
       style |-> ALGOL68_STYLE_PREPROCESS] }

\* the body of a comment of kind b goes on at position from
WordComment(b, from) ==
    LET closes == {w \in Words(from) : Folded(w) = b.word}
    IN  IF closes = {}
        THEN /\ AllStyled(from, N, b.style)
             /\ BitAnd(colorize_state, IN_ALGOL68_COMMENT + IN_ALGOL68_STRING)
                  = b.flag
        ELSE LET w == CHOOSE v \in closes : \A u \in closes : v[1] <= u[1]
             IN  /\ AllStyled(from, w[1] - 1, b.style)
                 /\ AllStyled(w[1], w[2], ALGOL68_STYLE_KEYWORD)
                 /\ IdleRest(w[2])
                 /\ (w[2] = N => BitAnd(colorize_state, IN_ALGOL68_COMMENT) = 0)

\* the line's first word, when only blanks precede it, is the opening word
\* of kind b and is not a tag broken by a final backslash
OpensWord(b, w) ==
    /\ w \in Words(1)
    /\ \A k \in 1..(w[1] - 1) : str[k] = CH.space
    /\ Folded(w) = b.word
    /\ ~(w[2] = N - 1 /\ str[N] = CH.bslash)

C17_WordCommentCloses ==
    \A b \in BodyKinds :
       /\ (Done /\ BitAnd(prior, IN_ALGOL68_COMMENT) = b.flag)
             => WordComment(b, 1)
       /\ (Done /\ Idle(prior))
             => \A w \in (1..N) \X (1..N) :
                   OpensWord(b, w) => WordComment(b, w[2] + 1)

(* C18: the string-continuation flag is set in a returned state only when  *)
(* the last code point of the line is a backslash inside an open string: a *)
(* line that ends inside a string without a final backslash returns the    *)
(* flag clear, whether the string was opened on that line or resumed.      *)
C18_StringFlagNeedsBackslash ==
    (Done /\ Has(colorize_state, IN_ALGOL68_STRING))
      => N > 0 /\ str[N] = CH.bslash

(* C18 as the code has it: the string-continuation flag is set in a        *)
(* returned state only when the last code point of the line is a backslash *)
(* inside an open string, or when the line was resumed from a carried      *)
(* string-continuation state and has no '"', so that the string stays      *)
(* open; a string opened on the line that ends without a final backslash   *)
(* returns the flag clear.                                                 *)
C18_StringFlagSetOrKept ==
    (Done /\ Has(colorize_state, IN_ALGOL68_STRING))
      => \/ N > 0 /\ str[N] = CH.bslash
         \/ Has(prior, IN_ALGOL68_STRING) /\ Quotes(1) = {}

\* a carried string goes through a line without '"' and without backslash
C18_Witness ==
    /\ Done
    /\ prior = IN_ALGOL68_STRING
    /\ N >= 2
    /\ Quotes(1) = {}
    /\ str[N] # CH.bslash
    /\ colorize_state = IN_ALGOL68_STRING
    /\ AllStyled(1, N, ALGOL68_STYLE_STRING)

(* C19: when one of the four comment-opening words is met in Idle, the     *)
(* opening word is styled keyword for 'note', 'comment' and 'co' and       *)
(* preprocess for 'pr'; the body of a PR directive up to the closing 'pr'  *)
(* is styled preprocess and the bodies of the other three are styled       *)
(* comment.                                                                *)
OpenerKinds ==
    BodyKinds \cup { [flag |-> IN_ALGOL68_COMMENT_NOTE, word |-> W_note,
                      style |-> ALGOL68_STYLE_COMMENT] }

\* the last position of the body that starts after the opening word w: the
\* position before the first closing word, N when there is none
BodyEnd(b, w) ==
    LET closing == IF b.word = W_note THEN W_eton ELSE b.word
    IN  Min({k \in w[2]..N :
               k = N \/ \E v \in Words(w[2] + 1) :
                           v[1] = k + 1 /\ Folded(v) = closing})

C19_OpenerStyles ==
    (Done /\ Idle(prior))
      => \A b \in OpenerKinds : \A w \in (1..N) \X (1..N) :
            OpensWord(b, w)
              => /\ AllStyled(w[1], w[2],
                              IF b.word = W_pr THEN ALGOL68_STYLE_PREPROCESS
                              ELSE ALGOL68_STYLE_KEYWORD)
                 /\ AllStyled(w[2] + 1, BodyEnd(b, w), b.style)

====
